---- MODULE Spec2Model ----
(***************************************************************************)
(* Auto-discovery pipeline of xmher/idea-generator (main_romantasy.py,     *)
(* the superset of main.py: Reddit + RSS + manual queue).                  *)
(*                                                                         *)
(* Text is a sequence of symbols (one-character strings, plus the literal  *)
(* prefixes the code tests for, such as "http://" and "#").  Scores are    *)
(* integers in units of 1/Unit so that min(1.0, ai + popularity * 0.05)    *)
(* is exact.  Ages are hours before the run's datetime.now().              *)
(***************************************************************************)
EXTENDS Integers, Sequences, FiniteSets, TLC

\* ------------------------------------------------------------------ bounds
MaxRuns == 2        \* processes started
MaxCalls == 2       \* classifier invocations, over all runs
MaxListing == 2     \* posts in one subreddit listing
MaxEntries == 2     \* entries in one feed
MaxUserLines == 1   \* lines the user adds to the queue file

\* ------------------------------------------------------- program constants
API_MAX_RETRIES == 3
DISCOVERY_HOURS_WINDOW == 168
PopularityCeiling == 3000
PopularityWeightDen == 20

\* hash(...) & 0xFFFFFFFF keeps 32 bits; the model keeps 16 (TLC's integers
\* are 32-bit signed): still a masked digest of the salted hash
HashMask == 2 ^ 16

Unit == PopularityCeiling * PopularityWeightDen
Hundredth == Unit \div 100
MIN_PROCESSING_SCORE == 65 * Hundredth

SubNames == <<"RomanceBooks", "romantasy">>
SUBREDDIT_CONFIG == [RomanceBooks |-> 50, romantasy |-> 25]
RSS_FEEDS == <<[name |-> "Jane Friedman", priority |-> "high"],
               [name |-> "Writer's Digest", priority |-> "high"],
               [name |-> "DIY MFA", priority |-> "medium"]>>
use_high_priority_only == TRUE

\* ------------------------------------------------------------ text helpers
Range(s) == {s[k] : k \in DOMAIN s}

IsSpace(c) == c \in {" ", "\n"}

\* str.lower() on one symbol
LowerSym(c) ==
    CASE c = "A" -> "a"
      [] c = "C" -> "c"
      [] OTHER -> c

Lower(s) == [k \in DOMAIN s |-> LowerSym(s[k])]

RECURSIVE LStrip(_)
LStrip(s) == IF s # <<>> /\ IsSpace(Head(s)) THEN LStrip(Tail(s)) ELSE s

RECURSIVE RStrip(_)
RStrip(s) ==
    IF s # <<>> /\ IsSpace(s[Len(s)]) THEN RStrip(SubSeq(s, 1, Len(s) - 1)) ELSE s

\* str.strip()
Strip(s) == RStrip(LStrip(s))

\* title.lower().strip()
NormalizeTitle(title) == Strip(Lower(title))

StartsWith(s, sym) == s # <<>> /\ Head(s) = sym

SymCode(c) ==
    CASE c = "A" -> 65
      [] c = "C" -> 67
      [] c = "a" -> 97
      [] c = "b" -> 98
      [] c = "c" -> 99
      [] c = "d" -> 100
      [] c = "x" -> 120
      [] c = "y" -> 121
      [] c = " " -> 32
      [] c = "#" -> 35
      [] c = "http://" -> 104
      [] OTHER -> 63

\* a digest of the bytes of s: a fixed function of s alone
RECURSIVE Digest(_)
Digest(s) == IF s = <<>> THEN 7 ELSE (Digest(Tail(s)) * 31 + SymCode(Head(s))) % HashMask

\* hashlib.md5(link.encode()).hexdigest()[:16]
Md5Hex16(s) == <<"md5", Digest(s)>>

\* hash(str): salted with the interpreter's per-process random seed
PyStrHash(seed, s) == Digest(s) * (2 * seed + 1) + seed * 7919

\* f"manual_{hash(stripped) & 0xFFFFFFFF:08x}"
ManualEntryId(seed, stripped) == <<"manual_", PyStrHash(seed, stripped) % HashMask>>

Seeds == {0, 1}

\* ------------------------------------------------------------- JSON values
\* relevance_score as json.loads delivers it: a number, a non-number
\* (string, null, list), or no such key
Num(h) == [t |-> "num", v |-> h * Hundredth]
Absent == [t |-> "absent"]
NonNum == [t |-> "nonnum"]
ScoreJson == {Num(0 - 20), Num(65), Num(69), Num(150), NonNum}

\* is_good_candidate: JSON true, JSON false, no such key, or another truthy
\* value such as the string "false"
GoodJson == {"true", "false", "absent", "truthy_other"}

Dict(good, score) == [kind |-> "dict", good |-> good, score |-> score]
EmptyDict == [kind |-> "empty"]
TextResult == [kind |-> "text"]
ApiError == [kind |-> "api_error"]

\* what extract_json can hand back for one successful API response
Responses ==
    {Dict("true", s) : s \in ScoreJson}
        \cup {Dict(g, Num(69)) : g \in GoodJson}
        \cup {EmptyDict, TextResult}

\* ------------------------------------------------------- response texts
\* the text of a model response: what wraps it (nothing, <json></json> tags,
\* a ```json fence) and what the wrapped text is:
\*   object        a JSON object, the document doc
\*   array         a JSON array without braces
\*   prose_object  prose with the JSON object doc inside
\*   broken        {...} that is no JSON
\*   prose         text without braces
Wrappers == {"none", "tags", "fence"}
JsonDocs == {Dict("true", Num(69)), EmptyDict}
Contents ==
    [wrapper : Wrappers, body : {"object", "prose_object"}, doc : JsonDocs]
        \cup [wrapper : Wrappers, body : {"array", "broken", "prose"}, doc : {EmptyDict}]

ListResult == [kind |-> "list"]

\* {"error": "json_parse_failed"}
JsonParseFailed ==
    [kind |-> "dict", good |-> "absent", score |-> Absent, error |-> "json_parse_failed"]

\* extract_json returning {} where it returns the text it could not parse
ExtractJson_EmptyOnFailure(content) ==
    IF content.body \in {"object", "prose_object"} THEN content.doc
    ELSE IF content.body = "array" THEN ListResult
    ELSE EmptyDict

\* extract_json(s): the wrapper is stripped; a text that starts with { or [
\* is parsed; otherwise, or if that fails, the text from the first { to the
\* last } is parsed; if nothing parses the text itself is returned
ExtractJson(content) ==
    IF content.body = "object" THEN content.doc
    ELSE IF content.body = "array" THEN ListResult
    ELSE IF content.body = "prose_object" THEN content.doc
    ELSE TextResult

\* _call_openai(model, prompt, json_mode=True)
CallOpenai(content) == ExtractJson(content)

\* _call_anthropic(model, prompt, json_mode=True): only the text inside
\* <json></json> is parsed, whole
CallAnthropic(content) ==
    IF content.wrapper = "tags" /\ content.body = "object" THEN content.doc
    ELSE IF content.wrapper = "tags" /\ content.body = "array" THEN ListResult
    ELSE JsonParseFailed

\* ------------------------------------------------------------------ call()
\* a backoff of attempt + 1 seconds
SleepSeconds_Linear(attempt) == attempt + 1

\* time.sleep(2 ** attempt)
SleepSeconds(attempt) == 2 ^ attempt

RECURSIVE CallLoop(_, _, _)
CallLoop(outcomes, attempt, slept) ==
    IF attempt >= API_MAX_RETRIES
    THEN [raised |-> TRUE, result |-> ApiError, attempts |-> attempt, slept |-> slept]
    ELSE IF outcomes[attempt + 1] # ApiError
         THEN [raised |-> FALSE, result |-> outcomes[attempt + 1],
               attempts |-> attempt + 1, slept |-> slept]
         ELSE CallLoop(outcomes, attempt + 1, Append(slept, SleepSeconds(attempt)))

\* call(model_key, prompt): outcomes[k] is what the k-th API attempt does
Call(outcomes) == CallLoop(outcomes, 0, <<>>)

\* the attempts of one invocation: nfail failing attempts, then response r
Attempts(nfail, r) == [k \in 1..API_MAX_RETRIES |-> IF k <= nfail THEN ApiError ELSE r]

\* what the API may do to one invocation: any response at the first attempt,
\* or 1..API_MAX_RETRIES failed attempts before an accepting response
AttemptSeqs ==
    {Attempts(0, r) : r \in Responses}
        \cup {Attempts(n, Dict("true", Num(69))) : n \in 1..API_MAX_RETRIES}

\* Python truthiness of result / result.get("is_good_candidate")
Truthy(good) == good \in {"true", "truthy_other"}

\* agent_relevance_filter without its try/except fail-closed path: exhausted
\* retries let the candidate through
AgentRelevanceFilter_FailOpen(outcomes) ==
    LET c == Call(outcomes) IN
    IF c.raised
    THEN [accepted |-> TRUE, outcome |-> "exhausted", result |-> Dict("true", Num(69))]
    ELSE IF c.result.kind = "dict" /\ Truthy(c.result.good)
    THEN [accepted |-> TRUE, outcome |-> "accepted", result |-> c.result]
    ELSE [accepted |-> FALSE, outcome |-> "rejected", result |-> c.result]

\* agent_relevance_filter(title): the dict it returns, or None
AgentRelevanceFilter(outcomes) ==
    LET c == Call(outcomes) IN
    IF c.raised
    THEN [accepted |-> FALSE, outcome |-> "exhausted", result |-> ApiError]
    ELSE IF c.result.kind = "empty"
    THEN [accepted |-> FALSE, outcome |-> "rejected", result |-> c.result]
    ELSE IF c.result.kind # "dict"
    THEN [accepted |-> FALSE, outcome |-> "error", result |-> c.result]
    ELSE IF Truthy(c.result.good)
    THEN [accepted |-> TRUE, outcome |-> "accepted", result |-> c.result]
    ELSE [accepted |-> FALSE, outcome |-> "rejected", result |-> c.result]

\* Python's None
None == [kind |-> "None"]

\* "return result" inside the test of agent_relevance_filter, "return None"
\* on every other path: what the caller of the classifier receives
FilterReturn(v) == IF v.accepted THEN v.result ELSE None

\* filter_result.get("relevance_score", 0.0) when it is a number
AiRelevance(score) == IF score.t = "num" THEN score.v ELSE 0

Min(a, b) == IF a <= b THEN a ELSE b

\* min(1.0, ai_relevance + min(1.0, score / 3000) * 0.05), in units of 1/Unit
RedditRankingScore(ai_relevance, score) ==
    Min(Unit, ai_relevance + Min(PopularityCeiling, score))

\* "ranking_score": ai_relevance  (RSS and manual: pure AI score)
PureRankingScore(ai_relevance) == ai_relevance

\* ------------------------------------------------------------ Reddit fetch
PostA == [id |-> <<"r1">>, title |-> <<"A", "b">>, permalink |-> <<"/r1">>,
          score |-> 6000, stickied |-> FALSE, age |-> 1]
PostB == [id |-> <<"r2">>, title |-> <<"a", "b">>, permalink |-> <<"/r2">>,
          score |-> 40, stickied |-> FALSE, age |-> 2]
PostOld == [id |-> <<"r3">>, title |-> <<"d">>, permalink |-> <<"/r3">>,
            score |-> 500, stickied |-> FALSE, age |-> 200]
PostSticky == [id |-> <<"r4">>, title |-> <<"d">>, permalink |-> <<"/r4">>,
               score |-> 500, stickied |-> TRUE, age |-> 1]
AllPosts == {PostA, PostB, PostOld, PostSticky}

Injective(s) == \A a, b \in DOMAIN s : s[a] = s[b] => a = b

SeqsUpTo(S, n) == UNION {{s \in [1..k -> S] : Injective(s)} : k \in 0..n}

\* what subreddit.hot(limit=30) yields for one subreddit, or an exception
SubOutcomes ==
    {[ok |-> TRUE, listing |-> l] : l \in SeqsUpTo(AllPosts, MaxListing)}
        \cup {[ok |-> FALSE, listing |-> <<>>]}

RedditUrl(permalink) == <<"https://www.reddit.com">> \o permalink

RECURSIVE ScanListing(_, _, _, _, _)
ScanListing(listing, k, sub_name, min_score, acc) ==
    IF k > Len(listing) THEN acc
    ELSE LET post == listing[k] IN
         IF post.age > DISCOVERY_HOURS_WINDOW
         THEN acc
         ELSE IF post.stickied \/ post.score < min_score
                 \/ post.id \in acc.processed_ids
         THEN ScanListing(listing, k + 1, sub_name, min_score, acc)
         ELSE ScanListing(listing, k + 1, sub_name, min_score,
                 [raw |-> Append(acc.raw,
                             [id |-> post.id, title |-> post.title,
                              url |-> RedditUrl(post.permalink),
                              score |-> post.score, subreddit |-> sub_name]),
                  processed_ids |-> acc.processed_ids \cup {post.id}])

RECURSIVE ScanSubreddits(_, _, _)
ScanSubreddits(outcomes, n, acc) ==
    IF n > Len(SubNames) THEN acc
    ELSE ScanSubreddits(outcomes, n + 1,
             IF outcomes[n].ok
             THEN ScanListing(outcomes[n].listing, 1, SubNames[n],
                              SUBREDDIT_CONFIG[SubNames[n]], acc)
             ELSE acc)

\* load_processed_ids without its except IOError clause
LoadRaises_Uncaught(readable) == ~readable

\* load_processed_ids catches the IOError of open() and of the read: nothing
\* propagates to its caller
LoadRaises(readable) == FALSE

\* load_processed_ids(): the ids of the file, or set() on IOError
LoadProcessedIds(file, readable) == IF readable THEN file ELSE {}

\* the raw_candidates of fetch_and_filter_reddit_candidates
RedditRawCandidates(reddit_client, outcomes, processed) ==
    IF ~reddit_client THEN <<>>
    ELSE ScanSubreddits(outcomes, 1, [raw |-> <<>>, processed_ids |-> processed]).raw

\* --------------------------------------------------------------- RSS fetch
\* feed entries as feedparser delivers them; dated = published_parsed is set;
\* age is the hours since publication, whether or not the feed states it
EntryA == [title |-> <<"A", "b", " ">>, link |-> <<"http://", "x">>,
           dated |-> TRUE, age |-> 5]
EntryB == [title |-> <<"a", "b">>, link |-> <<"http://", "y">>,
           dated |-> TRUE, age |-> 2]
EntryC == [title |-> <<"C", "d">>, link |-> <<"http://", "x">>,
           dated |-> FALSE, age |-> 200]
EntryOld == [title |-> <<"d">>, link |-> <<"http://", "d">>,
             dated |-> TRUE, age |-> 200]
EntryNoTitle == [title |-> <<" ">>, link |-> <<"http://", "c">>,
                 dated |-> TRUE, age |-> 1]
\* the entries each selected feed may carry
FeedEntries == << {EntryA, EntryC, EntryOld}, {EntryB, EntryC, EntryNoTitle} >>

\* what feedparser.parse(url).entries yields for feed n, or an exception
FeedOutcomes(n) ==
    {[ok |-> TRUE, entries |-> l] : l \in SeqsUpTo(FeedEntries[n], MaxEntries)}
        \cup {[ok |-> FALSE, entries |-> <<>>]}

\* one outcome per selected feed
FeedsOutcomes ==
    {o \in [1..2 -> FeedOutcomes(1) \cup FeedOutcomes(2)] :
        \A n \in 1..2 : o[n] \in FeedOutcomes(n)}

\* feeds = [f for f in RSS_FEEDS if f["priority"] == "high"] if ... else RSS_FEEDS
SelectedFeeds ==
    IF use_high_priority_only
    THEN SelectSeq(RSS_FEEDS, LAMBDA f : f.priority = "high")
    ELSE RSS_FEEDS

RECURSIVE ScanEntries(_, _, _, _)
ScanEntries(entries, k, feed_name, acc) ==
    IF k > Len(entries) THEN acc
    ELSE LET entry == entries[k]
             title == Strip(entry.title)
             link == Strip(entry.link)
             normalized_title == NormalizeTitle(title)
         IN
         IF entry.dated /\ entry.age > DISCOVERY_HOURS_WINDOW
         THEN ScanEntries(entries, k + 1, feed_name, acc)
         ELSE IF title = <<>> \/ link = <<>>
         THEN ScanEntries(entries, k + 1, feed_name, acc)
         ELSE IF link \in acc.seen_urls
         THEN ScanEntries(entries, k + 1, feed_name, acc)
         ELSE IF normalized_title \in acc.seen_titles
         THEN ScanEntries(entries, k + 1, feed_name, acc)
         ELSE ScanEntries(entries, k + 1, feed_name,
                 [all_entries |-> Append(acc.all_entries,
                        [id |-> Md5Hex16(link), title |-> title, url |-> link,
                         source |-> feed_name,
                         dated |-> entry.dated, age |-> entry.age]),
                  seen_urls |-> acc.seen_urls \cup {link},
                  seen_titles |-> acc.seen_titles \cup {normalized_title}])

RECURSIVE ScanFeeds(_, _, _)
ScanFeeds(outcomes, n, acc) ==
    IF n > Len(SelectedFeeds) THEN acc
    ELSE ScanFeeds(outcomes, n + 1,
             IF outcomes[n].ok
             THEN ScanEntries(outcomes[n].entries, 1, SelectedFeeds[n].name, acc)
             ELSE acc)

\* list.sort(key=..., reverse=True) on (key, item) pairs; the sort is stable:
\* x goes after every element whose key is not smaller than its own
RECURSIVE InsertDescending(_, _)
InsertDescending(x, sorted) ==
    IF sorted = <<>> THEN <<x>>
    ELSE IF x.key > Head(sorted).key THEN <<x>> \o sorted
    ELSE <<Head(sorted)>> \o InsertDescending(x, Tail(sorted))

RECURSIVE SortDescending(_, _)
SortDescending(keyed, sorted) ==
    IF keyed = <<>> THEN [k \in DOMAIN sorted |-> sorted[k].item]
    ELSE SortDescending(Tail(keyed), InsertDescending(Head(keyed), sorted))

\* key=lambda e: e["published"] if e["published"] else "": a later ISO
\* timestamp is the greater string, the empty string is the least
PublishedKey(e) == IF e.dated THEN 0 - e.age ELSE 0 - (DISCOVERY_HOURS_WINDOW + 1)

\* fetch_rss_candidates()
FetchRssCandidates(feedparser, outcomes) ==
    IF ~feedparser THEN <<>>
    ELSE LET all_entries ==
                 ScanFeeds(outcomes, 1,
                     [all_entries |-> <<>>, seen_urls |-> {}, seen_titles |-> {}]).all_entries
         IN SortDescending(
                [k \in DOMAIN all_entries |->
                    [key |-> PublishedKey(all_entries[k]), item |-> all_entries[k]]],
                <<>>)

\* ------------------------------------------------------------ manual queue
NoFile == <<"ENOENT">>

\* the header written when MANUAL_QUEUE_FILE does not exist
QueueHeader ==
    << <<"#", " ", "Manual Idea Queue", "\n">>,
       <<"#", " ", "Lines starting with # are ignored", "\n">>,
       <<"#", " ", "After processing, entries will be commented out", "\n">>,
       <<"\n">> >>

\* the entry written back as it was read, without the comment mark
ProcessedLine_Unmarked(stripped) == stripped \o <<"\n">>

\* f"# [PROCESSED] {stripped}\n"
ProcessedLine(stripped) == <<"#", " ", "[PROCESSED]", " ">> \o stripped \o <<"\n">>

IsUrlLine(stripped) == StartsWith(stripped, "http://") \/ StartsWith(stripped, "https://")

RECURSIVE ScanQueue(_, _, _, _)
ScanQueue(lines, k, seed, acc) ==
    IF k > Len(lines) THEN acc
    ELSE LET line == lines[k]
             stripped == Strip(line)
         IN
         IF stripped = <<>> \/ StartsWith(stripped, "#")
         THEN ScanQueue(lines, k + 1, seed,
                  [acc EXCEPT !.lines_to_keep = Append(@, line)])
         ELSE ScanQueue(lines, k + 1, seed,
                  [candidates |-> Append(acc.candidates,
                        [id |-> ManualEntryId(seed, stripped),
                         title |-> stripped,
                         url |-> IF IsUrlLine(stripped) THEN stripped ELSE <<>>,
                         source |-> "Manual Queue",
                         dated |-> TRUE, age |-> 0]),
                   lines_to_keep |-> Append(acc.lines_to_keep, ProcessedLine(stripped))])

\* fetch_manual_queue_candidates(): candidates returned, file left behind
\* (url None is the empty text)
FetchManualQueue(file, seed) ==
    IF file = NoFile
    THEN [candidates |-> <<>>, file |-> QueueHeader]
    ELSE LET r == ScanQueue(file, 1, seed, [candidates |-> <<>>, lines_to_keep |-> <<>>])
         IN [candidates |-> r.candidates,
             file |-> IF r.candidates # <<>> THEN r.lines_to_keep ELSE file]

\* lines a user may add to the queue file
UserLines == { <<"A", "b", "\n">>, <<" ", "http://", "x", "\n">> }

\* ------------------------------------------------------------------- state
VARIABLES
    pc,                 \* position of main() in the current process
    run,                \* number of processes started so far
    exit,               \* how the last process ended
    store,              \* ids in PROCESSED_IDS_FILE
    queueFile,          \* lines of MANUAL_QUEUE_FILE, or NoFile
    userLines,          \* lines the user has added to the queue file
    calls,              \* classifier invocations so far, over all runs
    raw_candidates,     \* fetch_and_filter_reddit_candidates: raw_candidates
    reddit_candidates,  \* viable_candidates, returned as reddit_candidates
    rss_entries,
    rss_candidates,
    manual_entries,
    manual_candidates,
    idx,                \* index of the loop main() is in
    final_selection,
    storeAtStart,       \* history: store when the process started
    classifyLog,        \* history: (url, title) of every classifier invocation
    lastCall,           \* history: outcome of the classifier invocation of the latest step
    lastReturn,         \* history: what agent_relevance_filter returned in the latest step
    handed,             \* history: posts passed to run_idea_factory_stub
    completed,          \* history: ids whose run_idea_factory_stub returned
    lastIo,             \* history: what the latest step's store I/O or hand-off did
    idLog,              \* history: (url, title, id) of the ids SpecIds derived
    applied,            \* history: the latest invocation of call() in SpecCall
    scanned,            \* history: the listing scan SpecScan applied
    stubbed,            \* history: the hand-off SpecCall applied to its invocation
    deduped,            \* history: the entry list SpecDedupe deduplicated
    race                \* SpecRace: position of the queue fetch and the lines it read

vars == <<pc, run, exit, store, queueFile, userLines, calls, raw_candidates,
          reddit_candidates, rss_entries, rss_candidates, manual_entries,
          manual_candidates, idx, final_selection, storeAtStart, classifyLog,
          lastCall, lastReturn, handed, completed, lastIo, idLog, applied,
          scanned, stubbed, deduped, race>>

locals == <<raw_candidates, reddit_candidates, rss_entries, rss_candidates,
            manual_entries, manual_candidates, idx, final_selection>>

files == <<store, queueFile, userLines>>

NoCall == "none"

\* agent_relevance_filter was not invoked in the latest step
NotCalled == [kind |-> "not_called"]

\* no invocation of call() yet
NotApplied == [model |-> "none"]

\* no hand-off applied yet
NotStubbed == [kind |-> "not_stubbed"]

\* no entry list deduplicated yet
NotDeduped == [kind |-> "not_deduped"]

\* fetch_manual_queue_candidates has not been entered
NotFetching == [at |-> "idle", lines |-> <<>>]

\* no listing scan applied yet
NotScanned == [kind |-> "not_scanned"]

Init ==
    /\ pc = "stopped"
    /\ run = 0
    /\ exit = "none"
    /\ store = {}
    /\ queueFile = NoFile
    /\ userLines = 0
    /\ calls = 0
    /\ raw_candidates = <<>>
    /\ reddit_candidates = <<>>
    /\ rss_entries = <<>>
    /\ rss_candidates = <<>>
    /\ manual_entries = <<>>
    /\ manual_candidates = <<>>
    /\ idx = 0
    /\ final_selection = <<>>
    /\ storeAtStart = {}
    /\ classifyLog = <<>>
    /\ lastCall = NoCall
    /\ lastReturn = NotCalled
    /\ handed = <<>>
    /\ completed = {}
    /\ lastIo = "none"
    /\ idLog = {}
    /\ applied = NotApplied
    /\ scanned = NotScanned
    /\ stubbed = NotStubbed
    /\ deduped = NotDeduped
    /\ race = NotFetching

\* python main_romantasy.py (no argument): AUTO-DISCOVERY mode starts
StartRun ==
    /\ pc = "stopped"
    /\ run < MaxRuns
    /\ pc' = "reddit_fetch"
    /\ run' = run + 1
    /\ exit' = "running"
    /\ raw_candidates' = <<>>
    /\ reddit_candidates' = <<>>
    /\ rss_entries' = <<>>
    /\ rss_candidates' = <<>>
    /\ manual_entries' = <<>>
    /\ manual_candidates' = <<>>
    /\ idx' = 0
    /\ final_selection' = <<>>
    /\ storeAtStart' = store
    /\ classifyLog' = <<>>
    /\ lastCall' = NoCall
    /\ lastReturn' = NotCalled
    /\ handed' = <<>>
    /\ UNCHANGED <<files, calls, completed>>
    /\ lastIo' = "none"
    /\ UNCHANGED <<idLog, applied, scanned, stubbed, deduped, race>>

\* the memory of a process that has ended: every local of main() is gone
Forgotten ==
    /\ raw_candidates' = <<>>
    /\ reddit_candidates' = <<>>
    /\ rss_entries' = <<>>
    /\ rss_candidates' = <<>>
    /\ manual_entries' = <<>>
    /\ manual_candidates' = <<>>
    /\ idx' = 0
    /\ classifyLog' = <<>>

\* an uncaught exception unwinds main(): the process ends with a traceback
Abort(cause) ==
    /\ pc' = "stopped"
    /\ exit' = cause
    /\ Forgotten
    /\ final_selection' = <<>>
    /\ handed' = <<>>

\* fetch_and_filter_reddit_candidates(), up to the AI filter loop
FetchReddit ==
    /\ pc = "reddit_fetch"
    /\ \E reddit_client \in BOOLEAN, readable \in BOOLEAN,
          outcomes \in [1..Len(SubNames) -> SubOutcomes] :
          LET raw == RedditRawCandidates(reddit_client, outcomes,
                                         LoadProcessedIds(store, readable))
              load_failed == reddit_client /\ ~readable
          IN /\ lastIo' = IF load_failed THEN "load_failed" ELSE "none"
             /\ IF reddit_client /\ LoadRaises(readable)
                THEN Abort("aborted_store_io")
                ELSE /\ calls + Len(raw) <= MaxCalls
                     /\ raw_candidates' = raw
                     /\ idx' = 1
                     /\ pc' = IF raw = <<>> THEN "rss_fetch" ELSE "reddit_classify"
                     /\ UNCHANGED <<exit, reddit_candidates, rss_entries,
                                    rss_candidates, manual_entries, manual_candidates,
                                    final_selection, classifyLog, handed>>
    /\ lastCall' = NoCall
    /\ lastReturn' = NotCalled
    /\ UNCHANGED <<run, files, calls, storeAtStart, completed>>
    /\ UNCHANGED <<idLog, applied, scanned, stubbed, deduped, race>>

\* post.update(filter_result); ranking_score; viable_candidates.append(post)
AcceptedRedditPost(post, filter_result) ==
    [id |-> post.id, title |-> post.title, url |-> post.url, score |-> post.score,
     subreddit |-> post.subreddit,
     is_good_candidate |-> filter_result.good,
     relevance_score |-> filter_result.score,
     ranking_score |-> RedditRankingScore(AiRelevance(filter_result.score), post.score),
     source_type |-> "Reddit"]

\* the dict main() appends to rss_candidates / manual_candidates
AcceptedEntry(entry, url, subreddit, source_type, filter_result) ==
    [id |-> entry.id, title |-> entry.title, url |-> url, score |-> 0,
     subreddit |-> subreddit,
     relevance_score |-> [t |-> "num", v |-> AiRelevance(filter_result.score)],
     ranking_score |-> PureRankingScore(AiRelevance(filter_result.score)),
     source_type |-> source_type]

\* the same with agent_relevance_filter's try/except removed: a failed call
\* raises out of the loop as well
RaisesOnScore_OrOnFailure(v) ==
    \/ v.outcome \in {"exhausted", "error"}
    \/ v.accepted /\ v.result.score.t = "nonnum"

\* arithmetic or ":.2f" formatting on a relevance_score that is no number
\* raises TypeError / ValueError, which nothing in main() catches
RaisesOnScore(v) == v.accepted /\ v.result.score.t = "nonnum"

\* one iteration of "for post in raw_candidates"
ClassifyRedditPost ==
    /\ pc = "reddit_classify"
    /\ \E outcomes \in AttemptSeqs :
          LET post == raw_candidates[idx]
              v == AgentRelevanceFilter(outcomes)
          IN /\ lastCall' = v.outcome
             /\ lastReturn' = FilterReturn(v)
             /\ IF RaisesOnScore(v)
                THEN Abort("aborted_type_error")
                ELSE /\ classifyLog' = Append(classifyLog,
                                              [url |-> post.url, title |-> post.title])
                     /\ reddit_candidates' =
                            IF v.accepted
                            THEN Append(reddit_candidates, AcceptedRedditPost(post, v.result))
                            ELSE reddit_candidates
                     /\ idx' = idx + 1
                     /\ pc' = IF idx = Len(raw_candidates) THEN "rss_fetch" ELSE pc
                     /\ UNCHANGED <<exit, raw_candidates, rss_entries, rss_candidates,
                                    manual_entries, manual_candidates,
                                    final_selection, handed>>
    /\ calls' = calls + 1
    /\ UNCHANGED <<run, files, storeAtStart, completed>>
    /\ lastIo' = "none"
    /\ UNCHANGED <<idLog, applied, scanned, stubbed, deduped, race>>

\* fetch_rss_candidates(), called from main()
FetchRss ==
    /\ pc = "rss_fetch"
    /\ \E feedparser \in BOOLEAN, outcomes \in FeedsOutcomes :
          LET entries == FetchRssCandidates(feedparser, outcomes)
          IN /\ calls + Len(entries) <= MaxCalls
             /\ rss_entries' = entries
             /\ idx' = 1
             /\ pc' = IF entries = <<>> THEN "manual_fetch" ELSE "rss_classify"
    /\ lastCall' = NoCall
    /\ lastReturn' = NotCalled
    /\ UNCHANGED <<run, exit, files, calls, raw_candidates, reddit_candidates,
                   rss_candidates, manual_entries, manual_candidates,
                   final_selection, storeAtStart, classifyLog, handed, completed>>
    /\ lastIo' = "none"
    /\ UNCHANGED <<idLog, applied, scanned, stubbed, deduped, race>>

\* one iteration of "for entry in rss_entries"
ClassifyRssEntry ==
    /\ pc = "rss_classify"
    /\ \E outcomes \in AttemptSeqs :
          LET entry == rss_entries[idx]
              v == AgentRelevanceFilter(outcomes)
          IN /\ lastCall' = v.outcome
             /\ lastReturn' = FilterReturn(v)
             /\ IF RaisesOnScore(v)
                THEN Abort("aborted_type_error")
                ELSE /\ classifyLog' = Append(classifyLog,
                                              [url |-> entry.url, title |-> entry.title])
                     /\ rss_candidates' =
                            IF v.accepted
                            THEN Append(rss_candidates,
                                        AcceptedEntry(entry, entry.url, entry.source,
                                                      "RSS", v.result))
                            ELSE rss_candidates
                     /\ idx' = idx + 1
                     /\ pc' = IF idx = Len(rss_entries) THEN "manual_fetch" ELSE pc
                     /\ UNCHANGED <<exit, raw_candidates, reddit_candidates, rss_entries,
                                    manual_entries, manual_candidates,
                                    final_selection, handed>>
    /\ calls' = calls + 1
    /\ UNCHANGED <<run, files, storeAtStart, completed>>
    /\ lastIo' = "none"
    /\ UNCHANGED <<idLog, applied, scanned, stubbed, deduped, race>>

\* fetch_manual_queue_candidates(), called from main(); io is what the file
\* system does to its open() calls, seed the interpreter's hash seed
FetchManual ==
    /\ pc = "manual_fetch"
    /\ \E seed \in Seeds, io \in {"ok", "read_fails", "write_fails"} :
          LET r == FetchManualQueue(queueFile, seed)
              raises == \/ io = "read_fails" /\ queueFile # NoFile
                        \/ io = "write_fails" /\ r.file # queueFile
          IN IF raises
             THEN /\ Abort("aborted_queue_io")
                  /\ UNCHANGED queueFile
             ELSE /\ io = "ok"
                  /\ calls + Len(r.candidates) <= MaxCalls
                  /\ queueFile' = r.file
                  /\ manual_entries' = r.candidates
                  /\ idx' = 1
                  /\ pc' = IF r.candidates = <<>> THEN "select" ELSE "manual_classify"
                  /\ UNCHANGED <<exit, raw_candidates, reddit_candidates, rss_entries,
                                 rss_candidates, manual_candidates, classifyLog,
                                 final_selection, handed>>
    /\ lastCall' = NoCall
    /\ lastReturn' = NotCalled
    /\ UNCHANGED <<run, store, userLines, calls, storeAtStart, completed>>
    /\ lastIo' = "none"
    /\ UNCHANGED <<idLog, applied, scanned, stubbed, deduped, race>>

\* entry["url"] if entry["url"] else f"manual_topic_{entry['id']}"
ManualUrl(entry) == IF entry.url # <<>> THEN entry.url ELSE <<"manual_topic_">> \o entry.id

\* one iteration of "for entry in manual_entries"
ClassifyManualEntry ==
    /\ pc = "manual_classify"
    /\ \E outcomes \in AttemptSeqs :
          LET entry == manual_entries[idx]
              v == AgentRelevanceFilter(outcomes)
          IN /\ lastCall' = v.outcome
             /\ lastReturn' = FilterReturn(v)
             /\ IF RaisesOnScore(v)
                THEN Abort("aborted_type_error")
                ELSE /\ classifyLog' = Append(classifyLog,
                                              [url |-> entry.url, title |-> entry.title])
                     /\ manual_candidates' =
                            IF v.accepted
                            THEN Append(manual_candidates,
                                        AcceptedEntry(entry, ManualUrl(entry),
                                                      "Manual Queue", "Manual", v.result))
                            ELSE manual_candidates
                     /\ idx' = idx + 1
                     /\ pc' = IF idx = Len(manual_entries) THEN "select" ELSE pc
                     /\ UNCHANGED <<exit, raw_candidates, reddit_candidates, rss_entries,
                                    rss_candidates, manual_entries,
                                    final_selection, handed>>
    /\ calls' = calls + 1
    /\ UNCHANGED <<run, files, storeAtStart, completed>>
    /\ lastIo' = "none"
    /\ UNCHANGED <<idLog, applied, scanned, stubbed, deduped, race>>

\* key=lambda x: x['ranking_score']
RankingKey(x) == x.ranking_score

\* the threshold test with > in place of >=
MeetsThreshold_Strict(post) == post.ranking_score > MIN_PROCESSING_SCORE

\* post.get("ranking_score", 0) >= MIN_PROCESSING_SCORE
MeetsThreshold(post) == post.ranking_score >= MIN_PROCESSING_SCORE

\* steps 4 and 5 without the final_selection.sort(...) line
FinalSelection_Unsorted(all_candidates) == SelectSeq(all_candidates, MeetsThreshold)

\* steps 4 and 5 of main(): combine, threshold, sort
FinalSelection(all_candidates) ==
    LET passed == SelectSeq(all_candidates, MeetsThreshold) IN
    SortDescending([k \in DOMAIN passed |-> [key |-> RankingKey(passed[k]), item |-> passed[k]]],
                   <<>>)

\* all_candidates = reddit_candidates + rss_candidates + manual_candidates
AllCandidates == reddit_candidates \o rss_candidates \o manual_candidates

\* steps 4 and 5 of main(); the lists it was built from are not read again
Select ==
    /\ pc = "select"
    /\ final_selection' = FinalSelection(AllCandidates)
    /\ IF final_selection' = <<>>
       THEN pc' = "stopped" /\ exit' = "finished_empty"
       ELSE pc' = "handoff" /\ UNCHANGED exit
    /\ Forgotten
    /\ lastCall' = NoCall
    /\ lastReturn' = NotCalled
    /\ UNCHANGED <<run, files, calls, storeAtStart, handed, completed>>
    /\ lastIo' = "none"
    /\ UNCHANGED <<idLog, applied, scanned, stubbed, deduped, race>>

\* looks_like_url(s): urlparse finds a scheme and a host
LooksLikeUrl(s) == StartsWith(s, "http://") \/ StartsWith(s, "https://")

\* run_idea_factory_stub(post['url']): the argument main() passes in step 6
StubInput(post) == post.url

\* the topic run_idea_factory_stub puts into the prompt and into out["topic"]:
\* what url_to_topic makes of a URL (page_title), else the argument itself
StubTopic(topic_or_url, page_title) ==
    IF LooksLikeUrl(topic_or_url) THEN page_title ELSE topic_or_url

\* _expect_dict(d, step): d if it is a dict, else {}
ExpectDict(d) == IF d.kind \in {"dict", "empty"} THEN d ELSE EmptyDict

\* out.update(_expect_dict(angle_plan_result, "Angle & Plan")): the keys the
\* result adds to the idea packet; an absent winning_angle or
\* deep_research_prompt is logged or defaulted, never raised
StubOut(angle_plan_result) == ExpectDict(angle_plan_result)

\* run_idea_factory_stub returns out unless call("angle_and_plan", ...) raised
\* after its retries, or a key of a parsed object has a type the code does
\* not expect (fault: winning_angle.get on a string raises AttributeError)
StubReturns(called, fault) == ~called.raised /\ ~fault

\* save_processed_id(reddit_id): append, or log the IOError and go on
SaveProcessedId(file, id, writable) == IF writable THEN file \cup {id} ELSE file

\* step 6 with save_processed_id moved out of the try block: the id is
\* saved whether or not run_idea_factory_stub raised
StoreAfterHandOff_SaveAlways(file, id, returned, writable) ==
    SaveProcessedId(file, id, writable)

\* step 6 with the ids saved in one batch after the loop instead
StoreAfterHandOff_Deferred(file, id, returned, writable) == file

\* the try block of step 6: run_idea_factory_stub, then save_processed_id
StoreAfterHandOff(file, id, returned, writable) ==
    IF returned THEN SaveProcessedId(file, id, writable) ELSE file

\* one iteration of "for i, post in enumerate(final_selection)"; the loop
\* index is Len(handed)
HandOff ==
    /\ pc = "handoff"
    /\ \E returned \in BOOLEAN, writable \in BOOLEAN :
          LET post == final_selection[Len(handed) + 1] IN
          /\ handed' = Append(handed, post)
          /\ completed' = IF returned THEN completed \cup {post.id} ELSE completed
          /\ store' = StoreAfterHandOff(store, post.id, returned, writable)
          /\ lastIo' = IF ~returned THEN "handoff_raised"
                       ELSE IF writable THEN "saved" ELSE "save_failed"
    /\ IF Len(handed) + 1 = Len(final_selection)
       THEN pc' = "stopped" /\ exit' = "finished"
       ELSE UNCHANGED <<pc, exit>>
    /\ lastCall' = NoCall
    /\ lastReturn' = NotCalled
    /\ UNCHANGED <<run, queueFile, userLines, calls, raw_candidates, reddit_candidates,
                   rss_entries, rss_candidates, manual_entries, manual_candidates,
                   idx, final_selection, storeAtStart, classifyLog>>
    /\ UNCHANGED <<idLog, applied, scanned, stubbed, deduped, race>>

\* the process is killed or interrupted (power loss, SIGKILL, or SIGINT: the
\* KeyboardInterrupt it raises, also inside time.sleep, is no Exception, so
\* no "except Exception" of call() or main() catches it): its memory is gone,
\* files stay
Crash ==
    /\ pc # "stopped"
    /\ pc' = "stopped"
    /\ exit' = "crashed"
    /\ Forgotten
    /\ final_selection' = <<>>
    /\ handed' = <<>>
    /\ lastCall' = NoCall
    /\ lastReturn' = NotCalled
    /\ UNCHANGED <<run, files, calls, storeAtStart, completed>>
    /\ lastIo' = "none"
    /\ UNCHANGED <<idLog, applied, scanned, stubbed, deduped, race>>

\* between runs the user adds a line to MANUAL_QUEUE_FILE
UserAppend ==
    /\ pc = "stopped"
    /\ userLines < MaxUserLines
    /\ \E line \in UserLines :
          queueFile' = (IF queueFile = NoFile THEN <<>> ELSE queueFile) \o <<line>>
    /\ userLines' = userLines + 1
    /\ lastCall' = NoCall
    /\ lastReturn' = NotCalled
    /\ UNCHANGED <<pc, run, exit, store, calls, locals, storeAtStart, classifyLog,
                   handed, completed>>
    /\ lastIo' = "none"
    /\ UNCHANGED <<idLog, applied, scanned, stubbed, deduped, race>>

Next ==
    \/ StartRun
    \/ FetchReddit
    \/ ClassifyRedditPost
    \/ FetchRss
    \/ ClassifyRssEntry
    \/ FetchManual
    \/ ClassifyManualEntry
    \/ Select
    \/ HandOff
    \/ Crash
    \/ UserAppend

Spec == Init /\ [][Next]_vars

\* ------------------------------------------------- ids across processes
\* SpecIds: separate processes, each with its own hash seed, derive the ids
\* of feed entries and of manual-queue lines; idLog collects what each got.

\* queue files a process may find
QueueFiles == SeqsUpTo(UserLines \cup {<<"#", " ", "x", "\n">>}, MaxEntries)

IdsOf(candidates) ==
    {[url |-> candidates[k].url, title |-> candidates[k].title, id |-> candidates[k].id] :
        k \in DOMAIN candidates}

\* a process runs fetch_rss_candidates()
IdsFromFeeds ==
    /\ run < MaxRuns
    /\ run' = run + 1
    /\ \E outcomes \in FeedsOutcomes :
          /\ rss_entries' = FetchRssCandidates(TRUE, outcomes)
          /\ idLog' = idLog \cup IdsOf(rss_entries')
    /\ UNCHANGED <<pc, exit, files, calls, raw_candidates, reddit_candidates,
                   rss_candidates, manual_entries, manual_candidates, idx,
                   final_selection, storeAtStart, classifyLog, lastCall, lastReturn, handed,
                   completed, lastIo, applied, scanned, stubbed, deduped, race>>

\* a process runs fetch_manual_queue_candidates() on a queue file
IdsFromQueue ==
    /\ run < MaxRuns
    /\ run' = run + 1
    /\ \E seed \in Seeds, file \in QueueFiles :
          LET r == FetchManualQueue(file, seed) IN
          /\ manual_entries' = r.candidates
          /\ queueFile' = r.file
          /\ idLog' = idLog \cup IdsOf(r.candidates)
    /\ UNCHANGED <<pc, exit, store, userLines, calls, raw_candidates,
                   reddit_candidates, rss_entries, rss_candidates,
                   manual_candidates, idx, final_selection, storeAtStart,
                   classifyLog, lastCall, lastReturn, handed, completed, lastIo, applied, scanned, stubbed, deduped, race>>

NextIds == IdsFromFeeds \/ IdsFromQueue

SpecIds == Init /\ [][NextIds]_vars

\* ------------------------------------------------------- call() on its own
\* SpecCall: one invocation of call(model_key, prompt, json_mode=True); each
\* API attempt raises or returns a response text.

ApiAttempts == [1..API_MAX_RETRIES -> Contents \cup {ApiError}]

\* result = _call_anthropic(...) if model.startswith("claude-") else _call_openai(...)
AttemptResult(model, attempt) ==
    IF attempt = ApiError THEN ApiError
    ELSE IF model = "claude-" THEN CallAnthropic(attempt)
    ELSE CallOpenai(attempt)

\* what one invocation routed to model can come to, over all API behaviours
Invocations(model) ==
    {LET c == Call([k \in 1..API_MAX_RETRIES |-> AttemptResult(model, attempts[k])])
     IN [model |-> model, api |-> attempts, raised |-> c.raised,
         result |-> c.result, attempts |-> c.attempts, slept |-> c.slept] :
        attempts \in ApiAttempts}

\* call("relevance_filter", prompt): MODEL_MAP routes it to a gpt model
InvokeOpenai ==
    /\ applied = NotApplied
    /\ applied' \in Invocations("gpt-")
    /\ UNCHANGED <<pc, run, exit, files, calls, locals, storeAtStart, classifyLog,
                   lastCall, lastReturn, handed, completed, lastIo, idLog, scanned, stubbed, deduped, race>>

\* call("angle_and_plan", prompt): MODEL_MAP routes it to a claude model
InvokeAnthropic ==
    /\ applied = NotApplied
    /\ applied' \in Invocations("claude-")
    /\ UNCHANGED <<pc, run, exit, files, calls, locals, storeAtStart, classifyLog,
                   lastCall, lastReturn, handed, completed, lastIo, idLog, scanned, stubbed, deduped, race>>

\* one iteration of step 6 after the angle-and-plan invocation: the rest of
\* run_idea_factory_stub, then save_processed_id, on an empty store
HandOffAfterCall ==
    /\ applied # NotApplied
    /\ applied.model = "claude-"
    /\ stubbed = NotStubbed
    /\ \E writable \in BOOLEAN, fault \in BOOLEAN :
          /\ fault => ~applied.raised /\ applied.result \in JsonDocs \ {EmptyDict}
          /\ stubbed' = [kind |-> "stubbed",
                         returned |-> StubReturns(applied, fault),
                         out |-> StubOut(applied.result),
                         store |-> StoreAfterHandOff({}, PostA.id,
                                                     StubReturns(applied, fault), writable)]
    /\ UNCHANGED <<pc, run, exit, files, calls, locals, storeAtStart, classifyLog,
                   lastCall, lastReturn, handed, completed, lastIo, idLog, applied,
                   scanned, deduped, race>>

NextCall == InvokeOpenai \/ InvokeAnthropic \/ HandOffAfterCall

SpecCall == Init /\ [][NextCall]_vars

\* ------------------------------------------------- the listing scan alone
\* the contents of PROCESSED_IDS_FILE a scan may start from
ProcessedStores == {{}, {PostB.id}}

\* the scan of fetch_and_filter_reddit_candidates applied to one outcome per
\* subreddit and one state of the processed-ids store
ScanReddit ==
    /\ scanned = NotScanned
    /\ \E outcomes \in [1..Len(SubNames) -> SubOutcomes], processed \in ProcessedStores :
          scanned' = [kind |-> "scanned", outcomes |-> outcomes, processed |-> processed,
                      raw |-> RedditRawCandidates(TRUE, outcomes,
                                                  LoadProcessedIds(processed, TRUE))]
    /\ UNCHANGED <<pc, run, exit, files, calls, locals, storeAtStart, classifyLog,
                   lastCall, lastReturn, handed, completed, lastIo, idLog, applied,
                   stubbed, deduped, race>>

NextScan == ScanReddit

SpecScan == Init /\ [][NextScan]_vars

\* ------------------------------------------- rss_fetcher.deduplicate_entries
MaxDedupe == 4

\* an entry of another feed that shares EntryB's link
EntryD == [title |-> <<"d">>, link |-> <<"http://", "y">>,
           dated |-> TRUE, age |-> 3]

\* feed entries inside the window with a title and a link
RecentEntries == {EntryA, EntryB, EntryC, EntryD}

\* RSSEntry.__init__: title and link are stripped
RSSEntry(entry) == [title |-> Strip(entry.title), link |-> Strip(entry.link)]

\* the loop of deduplicate_entries with dedupe_by_url and dedupe_by_title set
RECURSIVE DedupeLoop(_, _, _)
DedupeLoop(entries, k, acc) ==
    IF k > Len(entries) THEN acc
    ELSE LET entry == entries[k]
             normalized_title == NormalizeTitle(entry.title)
         IN
         IF entry.link # <<>> /\ entry.link \in acc.seen_urls
         THEN DedupeLoop(entries, k + 1, acc)
         ELSE LET urls == IF entry.link # <<>>
                          THEN acc.seen_urls \cup {entry.link}
                          ELSE acc.seen_urls
              IN IF normalized_title \in acc.seen_titles
                 THEN DedupeLoop(entries, k + 1, [acc EXCEPT !.seen_urls = urls])
                 ELSE DedupeLoop(entries, k + 1,
                          [unique_entries |-> Append(acc.unique_entries, entry),
                           seen_urls |-> urls,
                           seen_titles |-> acc.seen_titles \cup {normalized_title}])

\* deduplicate_entries(entries)
DeduplicateEntries(entries) ==
    DedupeLoop(entries, 1,
               [unique_entries |-> <<>>, seen_urls |-> {}, seen_titles |-> {}]).unique_entries

\* the entries the loop of fetch_rss_candidates keeps of one feed's entries,
\* as (title, link)
InlineDedupe(entries) ==
    LET kept == ScanEntries(entries, 1, SelectedFeeds[1].name,
                            [all_entries |-> <<>>, seen_urls |-> {},
                             seen_titles |-> {}]).all_entries
    IN [k \in DOMAIN kept |-> [title |-> kept[k].title, link |-> kept[k].url]]

\* both deduplications applied to one list of recent entries
Deduplicate ==
    /\ deduped = NotDeduped
    /\ \E k \in 0..MaxDedupe : \E entries \in [1..k -> RecentEntries] :
          deduped' = [kind |-> "deduped", entries |-> entries,
                      unique |-> DeduplicateEntries([j \in DOMAIN entries |->
                                                        RSSEntry(entries[j])]),
                      inline |-> InlineDedupe(entries)]
    /\ UNCHANGED <<pc, run, exit, files, calls, locals, storeAtStart, classifyLog,
                   lastCall, lastReturn, handed, completed, lastIo, idLog, applied,
                   scanned, stubbed, race>>

NextDedupe == Deduplicate

SpecDedupe == Init /\ [][NextDedupe]_vars

\* --------------------------- the queue fetch beside another writer's append
MaxRaceLines == 3

\* another process (an editor, "echo >> manual_queue.txt") appends a line to
\* MANUAL_QUEUE_FILE; nothing locks the file, so it may do so at any time
WriterAppend ==
    /\ userLines < MaxRaceLines
    /\ \E line \in UserLines :
          queueFile' = (IF queueFile = NoFile THEN <<>> ELSE queueFile) \o <<line>>
    /\ userLines' = userLines + 1
    /\ UNCHANGED <<pc, run, exit, store, calls, locals, storeAtStart, classifyLog,
                   lastCall, lastReturn, handed, completed, lastIo, idLog, applied,
                   scanned, stubbed, deduped, race>>

\* os.path.exists(MANUAL_QUEUE_FILE) and, if the file is there, f.readlines()
ReadQueue ==
    /\ race.at = "idle"
    /\ race' = [at |-> "read", lines |-> queueFile]
    /\ UNCHANGED <<pc, run, exit, files, calls, locals, storeAtStart, classifyLog,
                   lastCall, lastReturn, handed, completed, lastIo, idLog, applied,
                   scanned, stubbed, deduped>>

\* the rest of fetch_manual_queue_candidates: the loop over the lines read,
\* then open(MANUAL_QUEUE_FILE, 'w') and the write of the header (file was
\* missing) or of lines_to_keep (there are candidates); no write otherwise
RewriteQueue ==
    /\ race.at = "read"
    /\ \E seed \in Seeds :
          LET r == FetchManualQueue(race.lines, seed) IN
          queueFile' = IF r.file # race.lines THEN r.file ELSE queueFile
    /\ race' = [race EXCEPT !.at = "done"]
    /\ UNCHANGED <<pc, run, exit, store, userLines, calls, locals, storeAtStart,
                   classifyLog, lastCall, lastReturn, handed, completed, lastIo,
                   idLog, applied, scanned, stubbed, deduped>>

NextRace == WriterAppend \/ ReadQueue \/ RewriteQueue

SpecRace == Init /\ [][NextRace]_vars

\* ------------------------------------------------------------------ claims
InOrder(s) == {p \in (DOMAIN s) \X (DOMAIN s) : p[1] < p[2]}

\* C1: no candidate, of any source kind, whose id was in the processed-ids
\* store when the run started is in the run's final selection or is handed
\* to generation.
C1_ProcessedNeverSelected ==
    /\ \A k \in DOMAIN final_selection : final_selection[k].id \notin storeAtStart
    /\ \A k \in DOMAIN handed : handed[k].id \notin storeAtStart

\* C2: every id in the processed-ids store is the id of a candidate whose
\* hand-off to generation returned without error, whatever else happened
\* (fetching, classifying, ranking, a hand-off that raised, a crash).
C2_StoreOnlyCompleted == store \subseteq completed

\* a run crashed after one hand-off had completed and another had raised
C2_Witness ==
    /\ exit = "crashed"
    /\ store # {}
    /\ storeAtStart = {}

\* C3: a classifier invocation whose API_MAX_RETRIES attempts all failed
\* accepts nothing (no candidate list grows in that step), and the final
\* selection is drawn from the accepted candidates only.
C3_ExhaustedIsRejected ==
    [][/\ lastCall' = "exhausted" => AllCandidates' = AllCandidates
       /\ (pc = "select" /\ pc' = "handoff")
            => Range(final_selection') \subseteq Range(AllCandidates)]_vars

\* a run whose last classifier invocation exhausted its retries selects
\* another candidate
C3_Witness ==
    /\ lastCall = "exhausted"
    /\ pc = "select"
    /\ AllCandidates # <<>>

\* C4: no two candidates of one final selection share a URL or a
\* lower-cased, trimmed title.
C4_NoDuplicateSelected ==
    \A p \in InOrder(final_selection) :
        /\ final_selection[p[1]].url # final_selection[p[2]].url
        /\ NormalizeTitle(final_selection[p[1]].title)
             # NormalizeTitle(final_selection[p[2]].title)

\* C5: within one run the classifier is invoked at most once per URL and at
\* most once per normalized title.
C5_ClassifiedOncePerKey ==
    \A p \in InOrder(classifyLog) :
        /\ classifyLog[p[1]].url = <<>> \/ classifyLog[p[1]].url # classifyLog[p[2]].url
        /\ NormalizeTitle(classifyLog[p[1]].title)
             # NormalizeTitle(classifyLog[p[2]].title)

\* C6: the final selection is in non-increasing order of ranking_score and
\* the candidates are handed to generation in that order.
C6_SortedAndHandedInOrder ==
    /\ \A k \in 1..(Len(final_selection) - 1) :
          final_selection[k].ranking_score >= final_selection[k + 1].ranking_score
    /\ Len(handed) <= Len(final_selection)
    /\ \A k \in DOMAIN handed : handed[k] = final_selection[k]

\* both candidates were handed off, and the feed entry, which main() lists
\* after every Reddit post, went first because it ranks higher
C6_Witness ==
    /\ Len(final_selection) = 2
    /\ Len(handed) = 2
    /\ handed[1].source_type = "RSS"
    /\ handed[2].source_type = "Reddit"
    /\ handed[1].ranking_score > handed[2].ranking_score

\* C7: every item of the final selection has 0 <= ranking_score <= 1.
C7_RankingScoreInUnitInterval ==
    \A k \in DOMAIN final_selection :
        /\ 0 <= final_selection[k].ranking_score
        /\ final_selection[k].ranking_score <= Unit

\* C8: the relevance_score kept with a classified candidate is within [0,1].
C8_RelevanceScoreClamped ==
    \A k \in DOMAIN AllCandidates :
        AllCandidates[k].relevance_score.t = "num"
            => /\ 0 <= AllCandidates[k].relevance_score.v
               /\ AllCandidates[k].relevance_score.v <= Unit

\* C9: the same (url, title) gets the same id in every process, for feed
\* entries and for manual-queue entries.
C9_IdDeterministic ==
    \A a, b \in idLog : (a.url = b.url /\ a.title = b.title) => a.id = b.id

\* C10: no failure while fetching a source (a subreddit listing, a feed, the
\* manual-queue file) ends the run: the run is never aborted by the I/O
\* error of fetch_manual_queue_candidates.
C10_SourceFailureNeverAborts == exit # "aborted_queue_io"

\* number of occurrences of x in the sequence s
Count(x, s) == Cardinality({k \in DOMAIN s : s[k] = x})

\* C11: when main() builds the final selection, it holds exactly the accepted
\* candidates whose ranking_score is >= MIN_PROCESSING_SCORE: each of them as
\* often as it was accepted, and no candidate below the threshold.
C11_SelectionIsExactlyThreshold ==
    [][(pc = "select" /\ exit' # "crashed")
        => \A c \in Range(AllCandidates) \cup Range(final_selection') :
              Count(c, final_selection') =
                 IF c.ranking_score >= MIN_PROCESSING_SCORE
                 THEN Count(c, AllCandidates) ELSE 0]_vars

\* a candidate ranked exactly at the threshold was selected and handed off
C11_Witness ==
    /\ handed # <<>>
    /\ handed[1].ranking_score = MIN_PROCESSING_SCORE

\* C12: a malformed classifier response (is_good_candidate present but not
\* the boolean true, relevance_score missing or not a number) is a rejection:
\* no Reddit post whose response carried such an is_good_candidate is among
\* the accepted candidates or in the final selection.
C12_MalformedIsRejected ==
    \A c \in Range(reddit_candidates) \cup Range(final_selection) :
        c.source_type = "Reddit"
            => c.is_good_candidate = "true" /\ c.relevance_score.t = "num"

\* C13: no response of the classifier aborts a run: the run never ends with
\* the TypeError / ValueError raised on a relevance_score that is no number.
C13_ResponseNeverAborts == exit # "aborted_type_error"

\* C14: a classifier invocation that failed (retries exhausted, or a response
\* that is no dict) does not stop the run and discards nothing: the accepted
\* candidates are kept, the loop goes on to the next candidate, and every
\* accepted candidate at or above the threshold is in the final selection.
C14_FailureSparesSiblings ==
    [][/\ lastCall' \in {"exhausted", "error"}
            => /\ AllCandidates' = AllCandidates
               /\ exit' = "running"
               /\ pc' # "stopped"
       /\ (pc = "select" /\ exit' # "crashed")
            => \A k \in DOMAIN AllCandidates :
                  AllCandidates[k].ranking_score >= MIN_PROCESSING_SCORE
                     => AllCandidates[k] \in Range(final_selection')]_vars

\* the classification after an accepted candidate failed, and the accepted
\* candidate is still there
C14_Witness ==
    /\ lastCall \in {"exhausted", "error"}
    /\ Len(classifyLog) = 2
    /\ \E k \in DOMAIN AllCandidates :
          AllCandidates[k].ranking_score >= MIN_PROCESSING_SCORE

\* the API attempts of the latest invocation that raised, in order, up to
\* the first that returned
FailedBefore(api) ==
    IF \E k \in DOMAIN api : api[k] # ApiError
    THEN (CHOOSE k \in DOMAIN api :
              api[k] # ApiError /\ \A j \in 1..(k - 1) : api[j] = ApiError) - 1
    ELSE Len(api)

\* C15: one invocation of call makes at most API_MAX_RETRIES attempts, stops
\* at the first attempt that returns, sleeps 2^k seconds after failed attempt
\* k = 0, 1, 2, and ends with a result or, after the last failed attempt,
\* with a failure.
C15_CallRetriesAndBackoff ==
    applied.model # "none" =>
        LET failed == FailedBefore(applied.api) IN
        /\ applied.attempts <= API_MAX_RETRIES
        /\ applied.raised = (failed = API_MAX_RETRIES)
        /\ applied.attempts = IF applied.raised THEN API_MAX_RETRIES ELSE failed + 1
        /\ applied.slept = [k \in 1..failed |-> 2 ^ (k - 1)]
        /\ ~applied.raised => applied.result # ApiError

\* an invocation whose first two attempts failed and whose third returned
C15_Witness ==
    /\ applied.model # "none"
    /\ ~applied.raised
    /\ applied.attempts = API_MAX_RETRIES
    /\ applied.slept = <<1, 2>>

\* the values a successfully parsed response can be
ParsedValues == JsonDocs \cup {ListResult}

OldKeys ==
    {[url |-> RedditUrl(p.permalink), title |-> p.title] :
        p \in {q \in AllPosts : q.age > DISCOVERY_HOURS_WINDOW}}
    \cup {[url |-> Strip(e.link), title |-> Strip(e.title)] :
        e \in {f \in UNION Range(FeedEntries) : f.age > DISCOVERY_HOURS_WINDOW}}

\* C17: no post and no feed entry published more than DISCOVERY_HOURS_WINDOW
\* hours before the fetch is passed to the classifier or is in the final
\* selection.
C17_NoOldItemClassified ==
    /\ \A k \in DOMAIN classifyLog : classifyLog[k] \notin OldKeys
    /\ \A k \in DOMAIN final_selection :
          [url |-> final_selection[k].url, title |-> final_selection[k].title]
              \notin OldKeys

\* a line of the queue file that is no entry: blank or a comment
KeptLine(line) == Strip(line) = <<>> \/ Head(Strip(line)) = "#"

\* C18: after a fetch of the manual queue every entry it returned is a
\* comment in the file, the lines that were comments or blank are unchanged
\* and in place, and a second fetch of that file returns no candidate and
\* leaves the file as it is.
C18_QueueConsumed ==
    [][(pc = "manual_fetch" /\ pc' \in {"manual_classify", "select"})
        => /\ \A seed \in Seeds :
                 FetchManualQueue(queueFile', seed)
                    = [candidates |-> <<>>, file |-> queueFile']
           /\ \A k \in DOMAIN queueFile' : KeptLine(queueFile'[k])
           /\ queueFile # NoFile
                => /\ Len(queueFile') = Len(queueFile)
                   /\ \A k \in DOMAIN queueFile :
                         KeptLine(queueFile[k]) => queueFile'[k] = queueFile[k]
                   /\ Len(manual_entries')
                        = Cardinality({k \in DOMAIN queueFile : ~KeptLine(queueFile[k])})]_vars

\* a fetch returned the entry a user had added below the header, and the
\* header is still in the file
C18_Witness ==
    /\ pc = "manual_classify"
    /\ Len(manual_entries) = 1
    /\ Len(queueFile) = Len(QueueHeader) + 1
    /\ queueFile[1] = QueueHeader[1]

\* C19: the id of a candidate whose hand-off returned and whose save did not
\* fail is in the store at the end of that very iteration, before the next
\* hand-off starts, and nothing removes an id from the store afterwards (a
\* crash included).
C19_SavedBeforeNextHandOff ==
    [][/\ lastIo' = "saved" => handed'[Len(handed')].id \in store'
       /\ store \subseteq store']_vars

\* the first of two hand-offs returned and its id, new to the store, is saved
\* while the second has not started
C19_Witness ==
    /\ pc = "handoff"
    /\ Len(final_selection) = 2
    /\ Len(handed) = 1
    /\ lastIo = "saved"
    /\ handed[1].id \in store \ storeAtStart

\* C20: a failed read or write of the processed-ids store does not end the
\* run: after a failed load the run goes on to classify or to the feeds,
\* after a failed save the loop goes on with the same final selection, and a
\* run that finishes has handed off every candidate of its final selection.
C20_StoreFailureNeverAborts ==
    [][/\ lastIo' = "load_failed"
            => exit' = "running" /\ pc' \in {"reddit_classify", "rss_fetch"}
       /\ lastIo' = "save_failed"
            => /\ final_selection' = final_selection
               /\ Len(handed') = Len(handed) + 1
               /\ \/ pc' = "handoff" /\ exit' = "running"
                  \/ exit' = "finished"
       /\ exit' = "finished" => handed' = final_selection']_vars

\* the save after the first of two hand-offs failed and the run goes on
C20_Witness ==
    /\ lastIo = "save_failed"
    /\ pc = "handoff"
    /\ Len(handed) = 1
    /\ handed[1].id \notin store

\* C21: popularity never overrides relevance: of two candidates of the final
\* selection, the one with the greater relevance_score is never ordered
\* after the other.
C21_RelevanceDominates ==
    \A p \in InOrder(final_selection) :
        final_selection[p[2]].relevance_score.v
            <= final_selection[p[1]].relevance_score.v

\* hours since the published / created time of the item a candidate of the
\* final selection was made from; a manual-queue entry is stamped with the
\* time of the fetch
PublishedAges(c) ==
    IF c.source_type = "Manual" THEN {0}
    ELSE IF c.source_type = "Reddit"
    THEN {q.age : q \in {r \in AllPosts : r.id = c.id}}
    ELSE {e.age : e \in {f \in UNION Range(FeedEntries) :
                            /\ f.dated
                            /\ Strip(f.link) = c.url
                            /\ Strip(f.title) = c.title}}

\* C22: among candidates of the final selection with equal ranking_score
\* (and relevance scores inside [0, 1]) the one published more recently comes
\* first.
C22_TiesByRecency ==
    \A p \in InOrder(final_selection) :
        (/\ final_selection[p[1]].ranking_score = final_selection[p[2]].ranking_score
         /\ final_selection[p[1]].relevance_score.v <= Unit
         /\ final_selection[p[2]].relevance_score.v <= Unit)
            => \A a \in PublishedAges(final_selection[p[1]]),
                  b \in PublishedAges(final_selection[p[2]]) : a <= b

\* C23: the caller of the classifier can tell a failed classification
\* (retries exhausted, or output that is no JSON object) from a rejection:
\* the value it receives after a failure differs from the value it receives
\* when the classifier rejects the candidate.
C23_FailureToldApart ==
    lastCall \in {"exhausted", "error"}
        => lastReturn # FilterReturn(AgentRelevanceFilter(
                              Attempts(0, Dict("false", Num(69)))))

\* C24: when a cancellation signal arrives while a run is classifying, the
\* candidates whose classification had already completed are still
\* thresholded, ranked and returned as the run's final selection.
C24_CancelKeepsCompleted ==
    [][(/\ pc \in {"reddit_classify", "rss_classify", "manual_classify"}
        /\ exit' = "crashed")
            => final_selection' = FinalSelection(AllCandidates)]_vars

\* C25: for each subreddit, every post of the fetched listing that is inside
\* the time window, not stickied, at or above the subreddit's minimum score
\* and not in the processed-ids store is emitted as a raw candidate, whatever
\* the position and age of the other posts of the listing.
C25_EveryEligiblePostEmitted ==
    scanned # NotScanned =>
        \A n \in 1..Len(SubNames) :
            \A k \in DOMAIN scanned.outcomes[n].listing :
                LET post == scanned.outcomes[n].listing[k] IN
                (/\ post.age <= DISCOVERY_HOURS_WINDOW
                 /\ ~post.stickied
                 /\ post.score >= SUBREDDIT_CONFIG[SubNames[n]]
                 /\ post.id \notin scanned.processed)
                    => \E j \in DOMAIN scanned.raw : scanned.raw[j].id = post.id

\* C26: a manual-queue entry is never lost: when the classification call of
\* an entry read from the queue fails for infrastructure reasons, or the
\* process ends while the entry waits to be classified, the entry is still
\* an unmarked line of the queue file, the only place a later run can take
\* it from.
C26_QueueEntryNeverLost ==
    [][(/\ pc = "manual_classify"
        /\ lastCall' = "exhausted" \/ exit' = "crashed")
            => \E k \in DOMAIN queueFile' :
                  Strip(queueFile'[k]) = manual_entries[idx].title]_vars

\* C27: a candidate's id is recorded as processed only when generation
\* produced a usable result: when the angle-and-plan call returned the
\* json_parse_failed error value or something that is no JSON object, the id
\* is not added to the processed-ids store.
C27_UnparsableNotRecorded ==
    (/\ stubbed # NotStubbed
     /\ ~applied.raised
     /\ applied.result \in {JsonParseFailed, ListResult})
        => PostA.id \notin stubbed.store

\* C28: for a manual-queue entry that is a plain topic (no URL) the topic
\* generation works on is the entry's topic text, its title, whatever a page
\* fetch would have returned.
C28_TopicIsQueuedText ==
    \A k \in DOMAIN handed :
        (handed[k].source_type = "Manual" /\ ~IsUrlLine(handed[k].title))
            => \A page_title \in {<<>>, handed[k].title} :
                  StubTopic(StubInput(handed[k]), page_title) = handed[k].title

\* C29: deduplicate_entries keeps the same entries, in the same order, as
\* the inline first-seen dedupe of fetch_rss_candidates for the same input:
\* an entry that is itself dropped never causes a later entry to be dropped.
C29_DedupeMatchesInline ==
    deduped # NotDeduped => deduped.unique = deduped.inline

\* the lines of the queue file that were appended after the fetch read the
\* file
AppendedSinceRead ==
    IF queueFile = NoFile \/ race.lines = NoFile THEN {}
    ELSE {queueFile[k] : k \in (Len(race.lines) + 1)..Len(queueFile)}

\* C30: a line appended to the manual-queue file by another writer while
\* fetch_manual_queue_candidates is between reading the file and rewriting
\* it is still a line of the file, unmarked, when the fetch completes.
C30_AppendSurvivesFetch ==
    [][(race.at = "read" /\ race.lines # NoFile /\ race'.at = "done")
        => \A line \in AppendedSinceRead :
              \E k \in DOMAIN queueFile' : queueFile'[k] = line]_vars

====
